---- MODULE Spec2Model ----
\* Model of the user-accounts / image-storage service of remove_bg_image:
\* the Flask handlers of server.py composed with UserService (user_service.py).
\* Requests are served by concurrent handler threads; every SQL statement and
\* every file-system call is one atomic step.
EXTENDS Integers, Sequences, FiniteSets, TLC

VARIABLES users, images, fs, folders, clock, tokCount, pc, loc, res, issued, regs

vars == <<users, images, fs, folders, clock, tokCount, pc, loc, res, issued, regs>>

\* ---------------------------------------------------------------- bounds
NumProcs == 2
MaxUsers == 2
MaxCalls == 3
MaxTokens == 2
MaxImages == 2
MaxListed == 4
MaxClock == 2
UsecPerSec == 2

Procs == 1..NumProcs

\* ---------------------------------------------------------------- values
\* Python None / SQL NULL, and the empty string used as a token.
None == -1
EmptyToken == 0
\* A token no login ever issued.
GarbageToken == MaxTokens + 1

\* Raw usernames a client may send: sequences of characters.
UsernameInputs == { <<>>, <<" ">>, <<"a">>, <<"A">>, <<" ", "a">>, <<"b">>, <<"B">> }
PasswordInputs == { "", "p", "q" }
FilenameInputs == { <<>>, <<"a">>, <<"/", "a">> }
BytesInputs == { <<>>, <<1>> }

\* ---------------------------------------------------------------- strings
RECURSIVE lstrip(_)
lstrip(s) == IF s # <<>> /\ Head(s) = " " THEN lstrip(Tail(s)) ELSE s

RECURSIVE rstrip(_)
rstrip(s) == IF s # <<>> /\ s[Len(s)] = " " THEN rstrip(SubSeq(s, 1, Len(s) - 1)) ELSE s

\* A strip that removes nothing.
strip_none(s) == s

strip(s) == rstrip(lstrip(s))

LowerChar(c) == CASE c = "A" -> "a" [] c = "B" -> "b" [] OTHER -> c

lower(s) == [i \in 1..Len(s) |-> LowerChar(s[i])]

\* normalize without the lower-casing.
normalize_nolower(username) == strip(username)

\* username.strip().lower()
normalize(username) == lower(strip(username))

\* ---------------------------------------------------------------- clock
\* A clock whose readings run backwards.
utcnow_backwards(t) == <<(MaxClock - t) \div UsecPerSec, (MaxClock - t) % UsecPerSec>>

\* datetime.utcnow() read as <<seconds, microseconds>>.
utcnow(t) == <<t \div UsecPerSec, t % UsecPerSec>>

\* datetime.isoformat(): the microsecond field is omitted when it is zero.
isoformat(d) == IF d[2] = 0 THEN <<d[1]>> ELSE <<d[1], d[2]>>

\* strftime("%Y%m%d%H%M%S%f"): fixed width, microseconds always present.
strftime(d) == <<d[1], d[2]>>

\* ---------------------------------------------------------------- hashing
\* werkzeug generate_password_hash / check_password_hash: a salted digest;
\* verification recomputes the digest with the stored salt.
Salts == {1}

Digest(salt, password) == <<"pbkdf2", salt, password>>

generate_password_hash(password, salt) == [salt |-> salt, digest |-> Digest(salt, password)]

\* A verification that accepts every password.
check_password_hash_any(pwhash, password) == TRUE

check_password_hash(pwhash, password) == pwhash.digest = Digest(pwhash.salt, password)

\* ---------------------------------------------------------------- users table
\* AUTOINCREMENT primary key: one more than the largest id ever used.
NextId(rows) == IF rows = {} THEN 1 ELSE 1 + (CHOOSE m \in {r.id : r \in rows} : \A r \in rows : r.id <= m)

\* users.username declared without UNIQUE.
UsernameTaken_none(us, name) == FALSE

\* A constraint that rejects every INSERT.
UsernameTaken_any(us, name) == TRUE

\* UNIQUE constraint of users.username (binary collation).
UsernameTaken(us, name) == \E r \in us : r.username = name

InsertUser(us, name, pwhash, created) ==
    us \cup {[id |-> NextId(us), username |-> name, password_hash |-> pwhash,
              auth_token |-> None, created_at |-> created]}

\* SELECT id, password_hash FROM users WHERE username = ?
SelectByUsername(us, name) == {r \in us : r.username = name}

\* The UPDATE without its WHERE clause.
UpdateToken_all(us, uid, token) == {[r EXCEPT !.auth_token = token] : r \in us}

\* An UPDATE that also resets created_at.
UpdateToken_touch(us, uid, token) ==
    {IF r.id = uid THEN [r EXCEPT !.auth_token = token, !.created_at = <<>>] ELSE r : r \in us}

\* An UPDATE that writes only where no token is stored yet.
UpdateToken_ifnull(us, uid, token) ==
    {IF r.id = uid /\ r.auth_token = None THEN [r EXCEPT !.auth_token = token] ELSE r : r \in us}

\* UPDATE users SET auth_token = ? WHERE id = ?
UpdateToken(us, uid, token) ==
    {IF r.id = uid THEN [r EXCEPT !.auth_token = token] ELSE r : r \in us}

\* A token that is not fresh: the same value at every login.
uuid4_fixed(n) == 1

\* uuid.uuid4().hex: a value never produced before.
uuid4(n) == n + 1

\* The lookup without the `if not token` guard, NULL comparing equal to None.
get_user_by_token_nullmatch(us, token) == {r \in us : r.auth_token = token}

\* get_user_by_token: the set of rows the SELECT returns (empty = None).
get_user_by_token(us, token) ==
    IF token = None \/ token = EmptyToken THEN {}
    ELSE {r \in us : r.auth_token # None /\ r.auth_token = token}

\* ---------------------------------------------------------------- results
NoResult == [op |-> "none", status |-> 0, token |-> None, path |-> <<>>, list |-> <<>>]

Result(op, status) == [NoResult EXCEPT !.op = op, !.status = status]

NoHash == [salt |-> 0, digest |-> <<>>]

NoLocals == [uid |-> 0, uname |-> <<>>, pwhash |-> NoHash, fname |-> <<>>, bytes |-> <<>>, path |-> <<>>]

\* ---------------------------------------------------------------- Init
Init ==
    /\ users = {}
    /\ images = {}
    /\ fs = <<>>
    /\ folders = {}
    /\ clock = 0
    /\ tokCount = 0
    /\ pc = [p \in Procs |-> "idle"]
    /\ loc = [p \in Procs |-> NoLocals]
    /\ res = NoResult
    /\ issued = {}
    /\ regs = <<>>

\* Every request is served by its own handler thread; the threads are
\* interchangeable, so a new request takes the lowest idle one.
Free(p) == pc[p] = "idle" /\ \A q \in Procs : q < p => pc[q] # "idle"

\* ---------------------------------------------------------------- clock step
Tick ==
    /\ clock < MaxClock
    /\ clock' = clock + 1
    /\ UNCHANGED <<users, images, fs, folders, tokCount, pc, loc, res, issued, regs>>

\* ---------------------------------------------------------------- register
\* POST /auth/register up to the INSERT of register_user: the handler's
\* validation, then register_user's normalisation and password hashing.
Register(p, username, password) ==
    /\ Free(p)
    /\ IF strip(username) = <<>> \/ password = ""
       THEN /\ res' = Result("register", 400)
            /\ UNCHANGED <<pc, loc>>
       ELSE IF normalize(strip(username)) = <<>>
       THEN /\ res' = Result("register", 409)
            /\ UNCHANGED <<pc, loc>>
       ELSE /\ \E salt \in Salts :
                 loc' = [loc EXCEPT ![p] = [NoLocals EXCEPT !.uname = normalize(strip(username)),
                                                            !.pwhash = generate_password_hash(password, salt)]]
            /\ pc' = [pc EXCEPT ![p] = "register_insert"]
            /\ res' = NoResult
    /\ UNCHANGED <<users, images, fs, folders, clock, tokCount, issued, regs>>

\* INSERT INTO users ...; commit: True, or False on sqlite3.IntegrityError.
RegisterInsert(p) ==
    /\ pc[p] = "register_insert"
    /\ IF UsernameTaken(users, loc[p].uname)
       THEN /\ res' = Result("register", 409)
            /\ UNCHANGED users
       ELSE /\ users' = InsertUser(users, loc[p].uname, loc[p].pwhash, isoformat(utcnow(clock)))
            /\ res' = Result("register", 200)
    /\ pc' = [pc EXCEPT ![p] = "idle"]
    /\ loc' = [loc EXCEPT ![p] = NoLocals]
    /\ UNCHANGED <<images, fs, folders, clock, tokCount, issued>>

\* ---------------------------------------------------------------- login
\* login_user without the `not row` guard: row["password_hash"] raises for an
\* unknown username.
login_check_noguard(rows, password) ==
    IF rows = {} THEN "error"
    ELSE IF \E r \in rows : check_password_hash(r.password_hash, password) THEN "ok"
    ELSE "invalid"

\* login_user after its SELECT: "invalid" is the None of line 156, "ok" lets
\* the method go on to issue a token.
login_check(rows, password) ==
    IF rows = {} THEN "invalid"
    ELSE IF \E r \in rows : check_password_hash(r.password_hash, password) THEN "ok"
    ELSE "invalid"

\* The response of POST /auth/login decided by the handler's validation and
\* by login_user's SELECT; "proceed" when login_user goes on to the UPDATE.
\* An exception escaping the handler is answered with 500.
login_response(us, username, password) ==
    IF strip(username) = <<>> \/ password = "" THEN Result("login", 400)
    ELSE LET outcome == login_check(SelectByUsername(us, normalize(strip(username))), password) IN
         IF outcome = "invalid" THEN Result("login", 401)
         ELSE IF outcome = "ok" THEN Result("proceed", 0)
         ELSE Result("login", 500)

\* POST /auth/login up to and including the SELECT of login_user.
Login(p, username, password) ==
    /\ Free(p)
    /\ IF login_response(users, username, password).op = "proceed"
       THEN /\ \E row \in SelectByUsername(users, normalize(strip(username))) :
                 loc' = [loc EXCEPT ![p] = [NoLocals EXCEPT !.uid = row.id]]
            /\ pc' = [pc EXCEPT ![p] = "login_update"]
            /\ res' = NoResult
       ELSE /\ res' = login_response(users, username, password)
            /\ UNCHANGED <<pc, loc>>
    /\ UNCHANGED <<users, images, fs, folders, clock, tokCount, issued, regs>>

\* token = uuid4().hex; UPDATE users SET auth_token; commit; return token.
LoginUpdate(p) ==
    /\ pc[p] = "login_update"
    /\ LET token == uuid4(tokCount) IN
         /\ users' = UpdateToken(users, loc[p].uid, token)
         /\ res' = [Result("login", 200) EXCEPT !.token = token]
         /\ issued' = issued \cup {<<token, loc[p].uid>>}
    /\ tokCount' = tokCount + 1
    /\ pc' = [pc EXCEPT ![p] = "idle"]
    /\ loc' = [loc EXCEPT ![p] = NoLocals]
    /\ UNCHANGED <<images, fs, folders, clock, regs>>

\* ---------------------------------------------------------------- storage failures
\* The exceptions sqlite3 raises when the storage layer itself fails (disk
\* full, database locked or unreadable, corruption).
StorageErrors == {"OperationalError", "DatabaseError"}

\* A handler that catches every sqlite3 error.
register_outcome_catchall(raised) == IF raised = "none" THEN "True" ELSE "False"

\* register_user's try/except around the INSERT: only IntegrityError is
\* caught, every other exception leaves the method.
register_outcome(raised) ==
    CASE raised = "none" -> "True"
      [] raised = "IntegrityError" -> "False"
      [] OTHER -> "raise"

\* The register handler's answer; an exception that escapes a handler is
\* answered by Flask with 500.
register_status(outcome) ==
    CASE outcome = "True" -> 200
      [] outcome = "False" -> 409
      [] OTHER -> 500

\* login_user catches nothing.
login_outcome(raised) == IF raised = "none" THEN "token" ELSE "raise"

\* The login handler's answer.
login_status(outcome) ==
    CASE outcome = "token" -> 200
      [] outcome = "None" -> 401
      [] OTHER -> 500

\* register_user when the INSERT or its commit raises a storage error: the
\* transaction is rolled back.
RegisterInsertFail(p, err) ==
    /\ pc[p] = "register_insert"
    /\ res' = Result("register", register_status(register_outcome(err)))
    /\ pc' = [pc EXCEPT ![p] = "idle"]
    /\ loc' = [loc EXCEPT ![p] = NoLocals]
    /\ UNCHANGED <<users, images, fs, folders, clock, tokCount, issued, regs>>

\* login_user when connecting or the SELECT raises a storage error.
LoginSelectFail(p, username, password, err) ==
    /\ Free(p)
    /\ strip(username) # <<>> /\ password # ""
    /\ res' = Result("login", login_status(login_outcome(err)))
    /\ UNCHANGED <<users, images, fs, folders, clock, tokCount, pc, loc, issued, regs>>

\* login_user when the UPDATE or its commit raises a storage error: the
\* token is not stored and not returned.
LoginUpdateFail(p, err) ==
    /\ pc[p] = "login_update"
    /\ res' = Result("login", login_status(login_outcome(err)))
    /\ pc' = [pc EXCEPT ![p] = "idle"]
    /\ loc' = [loc EXCEPT ![p] = NoLocals]
    /\ UNCHANGED <<users, images, fs, folders, clock, tokCount, issued, regs>>

\* ---------------------------------------------------------------- requests
\* Authorization header values, already split on " " as _extract_token does.
AuthHeaders ==
    {<<>>, <<"bearer", 1>>, <<"Basic", 1>>, <<1>>}
        \cup {<<"Bearer", t>> : t \in (1..MaxTokens) \cup {EmptyToken, GarbageToken}}

\* Multipart bodies: no 'image' field, a field with no file selected, a file.
UploadBodies ==
    {[has_image |-> FALSE, filename |-> <<>>, bytes |-> <<>>],
     [has_image |-> TRUE, filename |-> <<>>, bytes |-> <<>>]}
        \cup {[has_image |-> TRUE, filename |-> f, bytes |-> b] :
                 f \in FilenameInputs \ {<<>>}, b \in BytesInputs}

\* Upload requests: every header with a body that carries a file or no field
\* at all, and every body under the headers that can carry a live token.
UploadRequests ==
    {[header |-> h, body |-> b] : h \in AuthHeaders,
        b \in {[has_image |-> FALSE, filename |-> <<>>, bytes |-> <<>>],
               [has_image |-> TRUE, filename |-> <<"a">>, bytes |-> <<1>>]}}
    \cup {[header |-> <<"Bearer", t>>, body |-> b] : t \in 1..MaxTokens, b \in UploadBodies}

LowerWord(w) == IF w = "Bearer" THEN "bearer" ELSE w

\* _extract_token: <<>> stands for a missing header.
_extract_token(auth_header) ==
    IF auth_header = <<>> THEN None
    ELSE IF Len(auth_header) = 2 /\ LowerWord(auth_header[1]) = "bearer" THEN auth_header[2]
    ELSE None

\* ---------------------------------------------------------------- file names
\* werkzeug secure_filename: path separators become spaces, whitespace runs
\* are joined with "_", characters outside [A-Za-z0-9_.-] are dropped and
\* leading/trailing "." and "_" are stripped.
ReplaceSep(s) == [i \in 1..Len(s) |-> IF s[i] = "/" THEN " " ELSE s[i]]

RECURSIVE JoinWords(_)
JoinWords(s) ==
    IF s = <<>> THEN <<>>
    ELSE IF Head(s) = " "
         THEN IF lstrip(s) = <<>> THEN <<>> ELSE <<"_">> \o JoinWords(lstrip(s))
         ELSE <<Head(s)>> \o JoinWords(Tail(s))

SafeChars == {"a", "b", "A", "B", "_", ".", "-"}

StripChars == {".", "_"}

RECURSIVE StripDots(_)
StripDots(s) ==
    IF s # <<>> /\ Head(s) \in StripChars THEN StripDots(Tail(s))
    ELSE IF s # <<>> /\ s[Len(s)] \in StripChars THEN StripDots(SubSeq(s, 1, Len(s) - 1))
    ELSE s

secure_filename(filename) ==
    StripDots(SelectSeq(JoinWords(lstrip(ReplaceSep(filename))), LAMBDA c : c \in SafeChars))

\* os.path.join(self.user_upload_root, username), rooted at the project root.
ProjectRoot == "remove_bg_image"

user_folder(username) == <<ProjectRoot, "uploads", "user_uploads", username>>

\* f"{timestamp}_{safe_filename}" joined to the user folder.
stored_path(username, timestamp, safe_filename) ==
    user_folder(username) \o <<[ts |-> timestamp, name |-> safe_filename]>>

\* os.path.relpath(stored_path, start=<project root>)
relpath(path) == Tail(path)

\* A save that never reaches the disk.
FileSave_lost(files, path, bytes) == files

\* file_storage.save(path): create or overwrite the file.
FileSave(files, path, bytes) == (path :> bytes) @@ files

\* ---------------------------------------------------------------- images table
\* An INSERT that binds the record's own id as user_id.
InsertImage_ownid(imgs, uid, fname, path, uploaded) ==
    imgs \cup {[id |-> NextId(imgs), user_id |-> NextId(imgs), original_filename |-> fname,
                stored_path |-> path, uploaded_at |-> uploaded]}

InsertImage(imgs, uid, fname, path, uploaded) ==
    imgs \cup {[id |-> NextId(imgs), user_id |-> uid, original_filename |-> fname,
                stored_path |-> path, uploaded_at |-> uploaded]}

\* TEXT comparison of two isoformat strings (field by field, a proper prefix
\* sorts first).
RECURSIVE TextLess(_, _)
TextLess(a, b) ==
    IF b = <<>> THEN FALSE
    ELSE IF a = <<>> THEN TRUE
    ELSE IF Head(a) # Head(b) THEN Head(a) < Head(b)
    ELSE TextLess(Tail(a), Tail(b))

\* ORDER BY uploaded_at ASC.
OrderedBy_asc(s) == \A i, j \in 1..Len(s) : i < j => ~TextLess(s[j].uploaded_at, s[i].uploaded_at)

\* ORDER BY uploaded_at DESC: s[i] may precede s[j] unless it sorts before it.
OrderedBy(s) == \A i, j \in 1..Len(s) : i < j => ~TextLess(s[i].uploaded_at, s[j].uploaded_at)

\* The SELECT without its WHERE clause.
SelectImages_all(imgs, uid) ==
    LET n == Cardinality(imgs)
    IN {s \in [1..n -> imgs] : (\A i, j \in 1..n : i # j => s[i] # s[j]) /\ OrderedBy(s)}

\* SELECT ... FROM user_images WHERE user_id = ? ORDER BY uploaded_at DESC:
\* every row sequence the query may return (ties are in unspecified order).
SelectImages(imgs, uid) ==
    LET rows == {r \in imgs : r.user_id = uid}
        n == Cardinality(rows)
    IN {s \in [1..n -> rows] : (\A i, j \in 1..n : i # j => s[i] # s[j]) /\ OrderedBy(s)}

\* list_user_images: the rows as dictionaries of three columns.
list_user_images(imgs, uid) ==
    {[i \in 1..Len(s) |-> [original_filename |-> s[i].original_filename,
                           stored_path |-> s[i].stored_path,
                           uploaded_at |-> s[i].uploaded_at]] : s \in SelectImages(imgs, uid)}

\* ---------------------------------------------------------------- upload
\* POST /users/images up to the start of save_user_image's file-system work:
\* token resolution, the 'image' field check and the filename check.
Upload(p, auth_header, has_image, filename, bytes) ==
    /\ Free(p)
    /\ LET found == get_user_by_token(users, _extract_token(auth_header)) IN
       IF found = {}
       THEN /\ res' = Result("upload", 401)
            /\ UNCHANGED <<pc, loc>>
       ELSE IF ~has_image
       THEN /\ res' = Result("upload", 400)
            /\ UNCHANGED <<pc, loc>>
       ELSE IF filename = <<>>
       THEN /\ res' = Result("upload", 400)
            /\ UNCHANGED <<pc, loc>>
       ELSE /\ \E user \in found :
                 loc' = [loc EXCEPT ![p] = [NoLocals EXCEPT !.uid = user.id,
                                                            !.uname = user.username,
                                                            !.fname = filename,
                                                            !.bytes = bytes]]
            /\ pc' = [pc EXCEPT ![p] = "save_write"]
            /\ res' = NoResult
    /\ UNCHANGED <<users, images, fs, folders, clock, tokCount, issued, regs>>

\* save_user_image: secure_filename, the timestamp, makedirs and the write.
SaveWrite(p) ==
    /\ pc[p] = "save_write"
    /\ LET path == stored_path(loc[p].uname, strftime(utcnow(clock)), secure_filename(loc[p].fname)) IN
         /\ folders' = folders \cup {user_folder(loc[p].uname)}
         /\ fs' = FileSave(fs, path, loc[p].bytes)
         /\ loc' = [loc EXCEPT ![p].path = path]
    /\ pc' = [pc EXCEPT ![p] = "save_insert"]
    /\ UNCHANGED <<users, images, clock, tokCount, res, issued, regs>>

\* save_user_image when file_storage.save raises (disk error): the folder
\* exists, no file and no record are written, the request ends with 500.
SaveWriteFail(p) ==
    /\ pc[p] = "save_write"
    /\ folders' = folders \cup {user_folder(loc[p].uname)}
    /\ res' = Result("upload", 500)
    /\ pc' = [pc EXCEPT ![p] = "idle"]
    /\ loc' = [loc EXCEPT ![p] = NoLocals]
    /\ UNCHANGED <<users, images, fs, clock, tokCount, issued, regs>>

\* save_user_image: INSERT INTO user_images, commit, return relative_path.
SaveInsert(p) ==
    /\ pc[p] = "save_insert"
    /\ images' = InsertImage(images, loc[p].uid, secure_filename(loc[p].fname),
                             relpath(loc[p].path), isoformat(utcnow(clock)))
    /\ res' = [Result("upload", 200) EXCEPT !.path = relpath(loc[p].path)]
    /\ pc' = [pc EXCEPT ![p] = "idle"]
    /\ loc' = [loc EXCEPT ![p] = NoLocals]
    /\ UNCHANGED <<users, fs, folders, clock, tokCount, issued, regs>>

\* ---------------------------------------------------------------- list
\* GET /users/images
List(p, auth_header) ==
    /\ Free(p)
    /\ LET found == get_user_by_token(users, _extract_token(auth_header)) IN
       IF found = {}
       THEN res' = Result("list", 401)
       ELSE \E user \in found : \E rows \in list_user_images(images, user.id) :
              res' = [Result("list", 200) EXCEPT !.list = rows]
    /\ UNCHANGED <<users, images, fs, folders, clock, tokCount, pc, loc, issued, regs>>

\* ---------------------------------------------------------------- specifications
\* The counters are capped where a request would exceed a bound of the model.
InFlight(places) == Cardinality({q \in Procs : pc'[q] \in places})

BoundedRegister(p, u, pw) ==
    /\ Register(p, u, pw)
    /\ Cardinality(users) + InFlight({"register_insert"}) <= MaxUsers

BoundedLogin(p, u, pw) == Login(p, u, pw) /\ tokCount + InFlight({"login_update"}) <= MaxTokens

BoundedUpload(p, rq, cap) ==
    /\ Upload(p, rq.header, rq.body.has_image, rq.body.filename, rq.body.bytes)
    /\ Cardinality(images) + InFlight({"save_write", "save_insert"}) <= cap

\* The outcome of every INSERT of register_user, in commit order, with the
\* number of register calls in flight when it ran.
LoggedInsert(p) ==
    /\ RegisterInsert(p)
    /\ regs' = Append(regs, [username |-> loc[p].uname, created |-> res'.status = 200,
                             inflight |-> Cardinality({q \in Procs : pc[q] = "register_insert"})])

\* The whole service, started on an empty database.
Next ==
    \/ Tick
    \/ \E p \in Procs, u \in UsernameInputs, pw \in PasswordInputs : BoundedRegister(p, u, pw)
    \/ \E p \in Procs : RegisterInsert(p) /\ UNCHANGED regs
    \/ \E p \in Procs, u \in UsernameInputs, pw \in PasswordInputs : BoundedLogin(p, u, pw)
    \/ \E p \in Procs : LoginUpdate(p)
    \/ \E p \in Procs, rq \in UploadRequests : BoundedUpload(p, rq, MaxImages)
    \/ \E p \in Procs : SaveWrite(p)
    \/ \E p \in Procs : SaveWriteFail(p)
    \/ \E p \in Procs : SaveInsert(p)
    \/ \E p \in Procs, h \in AuthHeaders : List(p, h)

Spec == Init /\ [][Next]_vars

\* Accounts: registration and login, started on an empty database; the clock
\* stops one tick short of MaxClock.
NextAccounts ==
    \/ Tick /\ clock' < MaxClock
    \/ \E p \in Procs, u \in UsernameInputs, pw \in PasswordInputs : BoundedRegister(p, u, pw)
    \/ \E p \in Procs : RegisterInsert(p) /\ UNCHANGED regs
    \/ \E p \in Procs, u \in UsernameInputs, pw \in PasswordInputs : BoundedLogin(p, u, pw)
    \/ \E p \in Procs : LoginUpdate(p)

SpecAccounts == Init /\ [][NextAccounts]_vars

\* Registration alone, every INSERT logged; at most MaxCalls calls reach it.
NextRegister ==
    \/ Tick
    \/ \E p \in Procs, u \in UsernameInputs, pw \in {"", "p"} :
         /\ BoundedRegister(p, u, pw)
         /\ Len(regs) + InFlight({"register_insert"}) <= MaxCalls
    \/ \E p \in Procs : LoggedInsert(p)

SpecRegister == Init /\ [][NextRegister]_vars

\* Assets: the server restarted on a database in which "a" and "b" registered
\* with password "p"; logins and uploads; the clock stops one tick short of
\* MaxClock.
InitAssets ==
    /\ users = InsertUser(InsertUser({}, <<"a">>, generate_password_hash("p", 1), isoformat(utcnow(0))),
                          <<"b">>, generate_password_hash("p", 1), isoformat(utcnow(0)))
    /\ images = {}
    /\ fs = <<>>
    /\ folders = {}
    /\ clock = 0
    /\ tokCount = 0
    /\ pc = [p \in Procs |-> "idle"]
    /\ loc = [p \in Procs |-> NoLocals]
    /\ res = NoResult
    /\ issued = {}
    /\ regs = <<>>

NextAssets ==
    \/ Tick /\ clock' < MaxClock
    \/ \E p \in Procs, u \in {<<"a">>, <<"B">>}, pw \in {"p", "q"} : BoundedLogin(p, u, pw)
    \/ \E p \in Procs : LoginUpdate(p)
    \/ \E p \in Procs, rq \in UploadRequests : BoundedUpload(p, rq, MaxImages)
    \/ \E p \in Procs : SaveWrite(p)
    \/ \E p \in Procs : SaveWriteFail(p)
    \/ \E p \in Procs : SaveInsert(p)

SpecAssets == InitAssets /\ [][NextAssets]_vars

\* Listing: as Assets, after "a" and "b" have both logged in; uploads and
\* listings only, with room for more images.
InitListing ==
    /\ users = UpdateToken(UpdateToken(
                 InsertUser(InsertUser({}, <<"a">>, generate_password_hash("p", 1), isoformat(utcnow(0))),
                            <<"b">>, generate_password_hash("p", 1), isoformat(utcnow(0))),
                 1, uuid4(0)), 2, uuid4(1))
    /\ images = {}
    /\ fs = <<>>
    /\ folders = {}
    /\ clock = 0
    /\ tokCount = 2
    /\ pc = [p \in Procs |-> "idle"]
    /\ loc = [p \in Procs |-> NoLocals]
    /\ res = NoResult
    /\ issued = {<<uuid4(0), 1>>, <<uuid4(1), 2>>}
    /\ regs = <<>>

ListingHeaders == {<<"Bearer", 1>>, <<"Bearer", 2>>, <<"Bearer", GarbageToken>>}

ListingRequests ==
    {[header |-> h, body |-> [has_image |-> TRUE, filename |-> <<"a">>, bytes |-> <<1>>]] :
        h \in ListingHeaders}

NextListing ==
    \/ Tick
    \/ \E p \in Procs, rq \in ListingRequests : BoundedUpload(p, rq, MaxListed)
    \/ \E p \in Procs : SaveWrite(p)
    \/ \E p \in Procs : SaveInsert(p)
    \/ \E p \in Procs, h \in ListingHeaders : List(p, h)

SpecListing == InitListing /\ [][NextListing]_vars

\* Faults: as Accounts, with a storage layer that may fail at every statement.
NextFaults ==
    \/ Tick /\ clock' < MaxClock
    \/ \E p \in Procs, u \in UsernameInputs, pw \in PasswordInputs : BoundedRegister(p, u, pw)
    \/ \E p \in Procs : RegisterInsert(p) /\ UNCHANGED regs
    \/ \E p \in Procs, err \in StorageErrors : RegisterInsertFail(p, err)
    \/ \E p \in Procs, u \in UsernameInputs, pw \in PasswordInputs : BoundedLogin(p, u, pw)
    \/ \E p \in Procs, u \in UsernameInputs, pw \in PasswordInputs, err \in StorageErrors :
         LoginSelectFail(p, u, pw, err)
    \/ \E p \in Procs : LoginUpdate(p)
    \/ \E p \in Procs, err \in StorageErrors : LoginUpdateFail(p, err)

SpecFaults == Init /\ [][NextFaults]_vars
\* ================================================================ properties
\* A username as the specification identifies it: surrounding blanks removed,
\* letters folded to lower case.
Fold(c) == IF c = "A" THEN "a" ELSE IF c = "B" THEN "b" ELSE c

Canon(name) ==
    LET inner == {i \in 1..Len(name) : name[i] # " "} IN
    IF inner = {} THEN <<>>
    ELSE LET first == CHOOSE i \in inner : \A j \in inner : i <= j
             last == CHOOSE i \in inner : \A j \in inner : j <= i
         IN [k \in 1..(last - first + 1) |-> Fold(name[first + k - 1])]

\* What resolving a token yields: the ids of the users it resolves to.
Resolves(us, token) == {r.id : r \in get_user_by_token(us, token)}

IssuedTokens == {it[1] : it \in issued}

\* ---------------------------------------------------------------- C1
OneRowPerUsername ==
    \A r1, r2 \in users : Canon(r1.username) = Canon(r2.username) => r1 = r2

RegisterOutcome ==
    \A p \in Procs :
        /\ \A u \in UsernameInputs, pw \in PasswordInputs :
             Register(p, u, pw) /\ pc'[p] = "register_insert" => Canon(loc'[p].uname) = Canon(u)
        /\ RegisterInsert(p) =>
             IF \E r \in users : Canon(r.username) = Canon(loc[p].uname)
             THEN res'.status = 409 /\ users' = users
             ELSE /\ res'.status = 200
                  /\ \E r \in users' : users' = users \cup {r} /\ r \notin users
                                        /\ Canon(r.username) = Canon(loc[p].uname)

\* C1: of two registrations of one normalized username the first succeeds and
\* the second returns AlreadyExists (409), and the store never holds two rows
\* whose usernames agree after trimming and lower-casing.
C1_RegisterTwice ==
    [](OneRowPerUsername) /\ [][pc' # pc \/ res'.op = "register" => RegisterOutcome]_vars

C1_Witness ==
    /\ res = Result("register", 409)
    /\ Cardinality(users) = 1

\* ---------------------------------------------------------------- C2
Attempts(n) == {i \in 1..Len(regs) : Canon(regs[i].username) = n}

\* C2: of the register calls that reached the store, in any interleaving,
\* exactly one per normalized username succeeded and every other one was
\* answered AlreadyExists; the successes received pairwise distinct ids.
C2_ConcurrentRegister ==
    /\ \A i \in 1..Len(regs) :
         Cardinality({j \in Attempts(Canon(regs[i].username)) : regs[j].created}) = 1
    /\ Cardinality({i \in 1..Len(regs) : regs[i].created}) = Cardinality({r.id : r \in users})
    /\ \A r1, r2 \in users : r1.id = r2.id => r1 = r2

C2_Witness ==
    /\ Len(regs) = 3
    /\ regs[1].inflight = 2 /\ regs[1].created
    /\ Canon(regs[2].username) = Canon(regs[1].username) /\ ~regs[2].created
    /\ Canon(regs[3].username) # Canon(regs[1].username) /\ regs[3].created

C4_TokenBinding ==
    /\ \A r1, r2 \in users : r1.auth_token # None /\ r1.auth_token = r2.auth_token => r1 = r2
    /\ \A i1, i2 \in issued : i1[1] = i2[1] => i1[2] = i2[2]
    /\ \A r \in users : r.auth_token # None => <<r.auth_token, r.id>> \in issued
    /\ \A t \in IssuedTokens : Cardinality(Resolves(users, t)) <= 1
    /\ \A r \in users : Cardinality({t \in IssuedTokens : r.id \in Resolves(users, t)}) <= 1

C4_Witness ==
    \E r1, r2 \in users :
        /\ r1.id # r2.id
        /\ r1.auth_token # None /\ r2.auth_token # None
\* ---------------------------------------------------------------- C5
\* The bearer token a request carries, None when the header carries none.
BearerToken(h) == IF Len(h) = 2 /\ h[1] \in {"Bearer", "bearer"} THEN h[2] ELSE None

Unresolved(h) ==
    \/ BearerToken(h) = None
    \/ BearerToken(h) = EmptyToken
    \/ ~\E r \in users : r.auth_token = BearerToken(h)

\* C5: an upload whose token is missing, empty or resolves to no user is
\* answered Unauthorized (401) and ends there: the user table, the image
\* records, the files and the folders are unchanged and no save is started.
C5_RejectedUploadNoEffect ==
    [][res'.op = "upload" \/ pc' # pc =>
         \A rq \in {q \in UploadRequests : Unresolved(q.header)}, p \in Procs :
             Upload(p, rq.header, rq.body.has_image, rq.body.filename, rq.body.bytes) =>
                 /\ res' = Result("upload", 401)
                 /\ UNCHANGED <<users, images, fs, folders, pc, loc>>]_vars

C5_Witness ==
    /\ res = Result("upload", 401)
    /\ images # {}
    /\ \E r \in users : r.auth_token = None

\* ---------------------------------------------------------------- C6
AbsPath(rel) == <<ProjectRoot>> \o rel

\* C6: every Image Record's stored_path names a file that is on disk, also
\* in the middle of a save and after a failed one.
C6_RecordAfterBytes == \A r \in images : AbsPath(r.stored_path) \in DOMAIN fs

C6_Witness ==
    /\ images # {}
    /\ \E p \in Procs : pc[p] = "save_insert"

\* ---------------------------------------------------------------- C7
\* C7: two Image Records of one user with the same filename have distinct
\* stored paths.
C7_DistinctStoredPaths ==
    \A r1, r2 \in images :
        r1.id # r2.id /\ r1.user_id = r2.user_id /\ r1.original_filename = r2.original_filename
            => r1.stored_path # r2.stored_path

\* ---------------------------------------------------------------- C8
\* The instant an uploaded_at text denotes, in clock ticks.
TimeOf(text) == text[1] * UsecPerSec + (IF Len(text) = 2 THEN text[2] ELSE 0)

Entry(r) == [original_filename |-> r.original_filename, stored_path |-> r.stored_path,
             uploaded_at |-> r.uploaded_at]

ListsExactly(list, rows) ==
    /\ Len(list) = Cardinality(rows)
    /\ \A r \in rows :
         Cardinality({i \in 1..Len(list) : list[i] = Entry(r)})
             = Cardinality({q \in rows : Entry(q) = Entry(r)})

\* C8: a listing returns exactly the Image Records of the user the token
\* resolves to, most recent uploaded_at first.
C8_ListMostRecentFirst ==
    [][\A p \in Procs, h \in ListingHeaders :
         List(p, h) /\ res'.status = 200 =>
             /\ \E r \in users : r.auth_token = BearerToken(h)
                  /\ ListsExactly(res'.list, {q \in images : q.user_id = r.id})
             /\ \A i, j \in 1..Len(res'.list) :
                  i < j => TimeOf(res'.list[i].uploaded_at) >= TimeOf(res'.list[j].uploaded_at)]_vars

C8_Witness ==
    /\ res.op = "list" /\ res.status = 200
    /\ Len(res.list) = 3
    /\ TimeOf(res.list[1].uploaded_at) > TimeOf(res.list[2].uploaded_at)
    /\ TimeOf(res.list[2].uploaded_at) > TimeOf(res.list[3].uploaded_at)
    /\ \E q \in images : Entry(q) \notin {res.list[i] : i \in 1..3}

\* ---------------------------------------------------------------- C9
\* The password a row was registered with.
RegisteredPassword(r) == r.password_hash.digest[3]

Matching(u, pw) == {r \in users : r.username = Canon(u) /\ RegisteredPassword(r) = pw}

TokenIssued ==
    \A p \in Procs :
        LoginUpdate(p) =>
            /\ res'.op = "login" /\ res'.status = 200
            /\ res'.token # None /\ res'.token # EmptyToken
            /\ Resolves(users', res'.token) = {loc[p].uid}

\* C9 as stated: a login is answered with a token when the normalized
\* username is registered with that password and with Unauthorized (401) in
\* every other case.
C9_LoginOrUnauthorized ==
    [][pc' # pc \/ res'.op = "login" =>
       /\ \A p \in Procs, u \in UsernameInputs, pw \in PasswordInputs :
            Login(p, u, pw) =>
                IF Matching(u, pw) # {}
                THEN pc'[p] = "login_update" /\ loc'[p].uid \in {r.id : r \in Matching(u, pw)}
                ELSE res' = Result("login", 401) /\ pc' = pc
       /\ TokenIssued]_vars

\* C9 amended: as above, except that an empty (after trimming) username or an
\* empty password is answered with the validation failure (400).
C9_LoginOrRejected ==
    [][pc' # pc \/ res'.op = "login" =>
       /\ \A p \in Procs, u \in UsernameInputs, pw \in PasswordInputs :
            Login(p, u, pw) =>
                IF Canon(u) = <<>> \/ pw = ""
                THEN res' = Result("login", 400) /\ pc' = pc
                ELSE IF Matching(u, pw) # {}
                THEN pc'[p] = "login_update" /\ loc'[p].uid \in {r.id : r \in Matching(u, pw)}
                ELSE res' = Result("login", 401) /\ pc' = pc
       /\ TokenIssued]_vars

C9_Witness ==
    /\ res.op = "login" /\ res.status = 200
    /\ Resolves(users, res.token) # {}
    /\ \E r \in users : r.auth_token = None

\* ---------------------------------------------------------------- C10
KnownWrong(u, pw) ==
    /\ \E r \in users : r.username = Canon(u)
    /\ Matching(u, pw) = {}

\* C10: a login that fails on a wrong password is answered exactly as the
\* same login is answered by a store that differs only in not holding that
\* username.
C10_GenericFailure ==
    \A u \in UsernameInputs, pw \in PasswordInputs :
        KnownWrong(u, pw) =>
            /\ login_response(users, u, pw).op # "proceed"
            /\ login_response(users, u, pw)
                 = login_response({r \in users : r.username # Canon(u)}, u, pw)

C10_Witness ==
    /\ res = Result("login", 401)
    /\ \E u \in UsernameInputs, pw \in PasswordInputs \ {""} : KnownWrong(u, pw)
    /\ \E u \in UsernameInputs : Canon(u) # <<>> /\ ~\E r \in users : r.username = Canon(u)

\* ---------------------------------------------------------------- C11
\* A register request the specification calls invalid.
InvalidRegistration(u, pw) == Canon(u) = <<>> \/ pw = ""

\* C11: a registration with an empty (after trimming) username or an empty
\* password is rejected (400) at once; no INSERT is started, no user row is
\* added and no existing row changes.
C11_RegisterRejectsEmpty ==
    [][pc' # pc \/ res'.op = "register" =>
         \A p \in Procs, u \in UsernameInputs, pw \in PasswordInputs :
             Register(p, u, pw) /\ InvalidRegistration(u, pw) =>
                 /\ res'.status = 400
                 /\ UNCHANGED <<users, images, fs, folders, pc, loc>>]_vars

C11_Witness ==
    /\ res = Result("register", 400)
    /\ users # {}
    /\ \E p \in Procs : pc[p] = "register_insert"

\* ---------------------------------------------------------------- C12
\* An upload whose file the specification calls invalid.
InvalidFile(body) == body.has_image /\ (body.filename = <<>> \/ body.bytes = <<>>)

NothingStoredForEmpty ==
    /\ \A path \in DOMAIN fs : fs[path] # <<>>
    /\ \A p \in Procs : pc[p] \in {"save_write", "save_insert"} =>
           loc[p].fname # <<>> /\ loc[p].bytes # <<>>

\* C12: a save whose filename is empty or whose bytes are empty is rejected
\* (400, a value) and stores nothing: no file, no folder, no Image Record, and
\* no save is started for it.
C12_SaveRejectsEmpty ==
    /\ [](NothingStoredForEmpty)
    /\ [][res'.op = "upload" \/ pc' # pc =>
            \A rq \in {q \in UploadRequests : InvalidFile(q.body) /\ ~Unresolved(q.header)}, p \in Procs :
                Upload(p, rq.header, rq.body.has_image, rq.body.filename, rq.body.bytes) =>
                    /\ res' = Result("upload", 400)
                    /\ UNCHANGED <<users, images, fs, folders, pc, loc>>]_vars

\* ---------------------------------------------------------------- C13
\* Every record belongs to an existing user who has logged in.
RecordsHaveOwners ==
    \A r \in images :
        /\ \E u \in users : u.id = r.user_id
        /\ \E it \in issued : it[2] = r.user_id

\* The identity a save works for is the one its request's token resolved to.
IdentityFromToken ==
    \A p \in Procs :
        /\ \A rq \in UploadRequests :
             Upload(p, rq.header, rq.body.has_image, rq.body.filename, rq.body.bytes)
                 /\ pc'[p] = "save_write" =>
                     \E u \in users : /\ u.auth_token = BearerToken(rq.header)
                                       /\ loc'[p].uid = u.id
                                       /\ loc'[p].uname = u.username
        /\ SaveWrite(p) => loc'[p].uid = loc[p].uid
        /\ SaveInsert(p) =>
             \E r \in images' : /\ r \notin images
                                 /\ images' = images \cup {r}
                                 /\ r.user_id = loc[p].uid

\* C13: every Image Record's user_id is the id of an existing user, and the
\* record was inserted for the user the upload's token resolved to; no step
\* takes a user id from the request.
C13_RecordsFromResolvedIdentity ==
    /\ [](RecordsHaveOwners)
    /\ [][pc' # pc => IdentityFromToken]_vars

C13_Witness ==
    /\ \E r1, r2 \in images : r1.user_id # r2.user_id
    /\ res.op = "upload" /\ res.status = 200

OrdinaryStatuses == {200, 400, 401, 409}

\* C15: a register or login whose storage statement fails is answered with
\* an outcome of its own (the error escapes, 500), never with Unauthorized
\* (401) or AlreadyExists (409), and stores nothing.
C15_StorageFailureDistinct ==
    [][\A p \in Procs, err \in StorageErrors :
         \/ RegisterInsertFail(p, err)
         \/ LoginUpdateFail(p, err)
         \/ \E u \in UsernameInputs, pw \in PasswordInputs : LoginSelectFail(p, u, pw, err)
         => /\ res'.status \notin OrdinaryStatuses
            /\ users' = users]_vars

C15_Witness ==
    /\ res.op = "register" /\ res.status \notin OrdinaryStatuses
    /\ \E p \in Procs : pc[p] = "login_update"

\* ---------------------------------------------------------------- C16
\* The username an INSERT is about to store is already registered.
Collision(p) == \E r \in users : Canon(r.username) = Canon(loc[p].uname)

\* C16: register answers a validation failure with 400 and a username
\* collision with 409, and never the one for the other: 400 is given exactly
\* to an empty username or password, 409 exactly to an INSERT that collides.
C16_CollisionDistinctFromValidation ==
    [][pc' # pc \/ res'.op = "register" =>
         \A p \in Procs :
             /\ \A u \in UsernameInputs, pw \in PasswordInputs :
                  Register(p, u, pw) =>
                      IF InvalidRegistration(u, pw)
                      THEN res'.status = 400
                      ELSE res'.status \notin {400, 409} /\ pc'[p] = "register_insert"
             /\ RegisterInsert(p) =>
                  /\ res'.status # 400
                  /\ res'.status = 409 <=> Collision(p)]_vars

C16_Witness ==
    /\ res = Result("register", 400)
    /\ \E i \in 1..Len(regs) : ~regs[i].created

\* ---------------------------------------------------------------- C17
\* The records of the user a header's token belongs to.
OwnRecords(h) == {q \in images : \E r \in users : r.auth_token = BearerToken(h) /\ q.user_id = r.id}

\* C17: a listing changes neither the user table, the image records, the
\* files nor any save in progress; every entry it returns is a record of the
\* user the token belongs to, and for a user without images it returns the
\* empty sequence with success, also while uploads are in progress.
C17_ListReadOnlyScoped ==
    [][res'.op = "list" =>
         \A p \in Procs, h \in ListingHeaders :
             List(p, h) =>
                 /\ UNCHANGED <<users, images, fs, folders, pc, loc>>
                 /\ res'.status = 200 =>
                      \A i \in 1..Len(res'.list) : \E q \in OwnRecords(h) : res'.list[i] = Entry(q)
                 /\ (\E r \in users : r.auth_token = BearerToken(h)) /\ OwnRecords(h) = {} =>
                      res'.status = 200 /\ res'.list = <<>>]_vars

C17_Witness ==
    /\ res.op = "list" /\ res.status = 200 /\ res.list = <<>>
    /\ images # {}
    /\ \E p \in Procs : pc[p] = "save_insert"

\* ---------------------------------------------------------------- C18
\* Another login of the same user was answered with a token after login p
\* read the password hash and before it writes its own token: every login
\* clears the last response when it starts, so a token in it is newer.
Overlapped(p) ==
    /\ pc[p] = "login_update"
    /\ res.op = "login" /\ res.status = 200
    /\ <<res.token, loc[p].uid>> \in issued

\* C18: of two logins of one user that overlap, the one that writes last
\* returns a token different from the other's; once it has written, its
\* token resolves to the user and the other's resolves to nobody.
C18_ConcurrentLogins ==
    [][\A p \in Procs :
         Overlapped(p) /\ LoginUpdate(p) =>
             /\ res'.status = 200
             /\ res'.token # res.token
             /\ Resolves(users', res'.token) = {loc[p].uid}
             /\ Resolves(users', res.token) = {}
             /\ Cardinality({t \in {res.token, res'.token} : Resolves(users', t) = {loc[p].uid}}) = 1]_vars

\* One login is between its read and its write while the other has written
\* and been answered.
C18_Witness ==
    /\ \E p \in Procs : Overlapped(p) /\ Resolves(users, res.token) = {loc[p].uid}
    /\ tokCount = 1

\* ---------------------------------------------------------------- C19
\* The token upload p presented has been replaced: the user it resolved to
\* was answered a new token after the upload resolved its own (every upload
\* that starts a save clears the last response).
Superseded(p) ==
    /\ pc[p] \in {"save_write", "save_insert"}
    /\ res.op = "login" /\ res.status = 200
    /\ <<res.token, loc[p].uid>> \in issued

\* C19: an upload whose token has been replaced by a newer login of its user
\* writes no file and inserts no Image Record from then on.
C19_SupersededTokenNoWrite ==
    [][\A p \in Procs :
         Superseded(p) /\ pc'[p] # pc[p] => fs' = fs /\ images' = images]_vars

\* ---------------------------------------------------------------- C20
\* Row after is row before with at most its auth_token replaced.
SameButToken(before, after) == [after EXCEPT !.auth_token = before.auth_token] = before

OnlyTokenOf(uid) ==
    /\ Cardinality(users') = Cardinality(users)
    /\ \A r \in users : \E r2 \in users' :
         /\ r2.id = r.id
         /\ SameButToken(r, r2)
         /\ r.id # uid => r2 = r

\* C20: the step that completes a successful login changes only the
\* auth_token of the user who logged in; a login answered without a token
\* changes no row, so every token resolves as before; no login changes an
\* image record, a file or a folder.
C20_LoginFrame ==
    [][pc' # pc \/ res'.op = "login" =>
         \A p \in Procs :
             /\ LoginUpdate(p) =>
                  /\ OnlyTokenOf(loc[p].uid)
                  /\ UNCHANGED <<images, fs, folders>>
             /\ \A u \in UsernameInputs, pw \in PasswordInputs :
                  Login(p, u, pw) =>
                      /\ UNCHANGED <<users, images, fs, folders>>
                      /\ \A t \in IssuedTokens : Resolves(users', t) = Resolves(users, t)]_vars

C20_Witness ==
    /\ res.op = "login" /\ res.status = 200
    /\ images # {}
    /\ \E r \in users : r.auth_token \notin {None, res.token}

\* ---------------------------------------------------------------- C21
\* The instant the timestamp prefix of a record's stored filename denotes,
\* in clock ticks.
PrefixTimeOf(r) ==
    LET stamp == r.stored_path[Len(r.stored_path)].ts IN stamp[1] * UsecPerSec + stamp[2]

\* C21: of two Image Records of one user, the one with the earlier filename
\* prefix does not carry the later uploaded_at: upload order read off the
\* filenames is the order of the uploaded_at values.
C21_PrefixOrderIsUploadOrder ==
    \A r1, r2 \in images :
        r1.user_id = r2.user_id /\ PrefixTimeOf(r1) < PrefixTimeOf(r2)
            => TimeOf(r1.uploaded_at) <= TimeOf(r2.uploaded_at)
====
